---- MODULE Spec2Model ----
(***************************************************************************)
(* Bezier path editor example (examples/bez_editor/main.rs) and the two    *)
(* druid examples crash_quit_app.rs and crash_show_open_panel.rs.          *)
(*                                                                         *)
(* Rust Option<T> is a sequence of length 0 (None) or 1 (Some(x)).         *)
(* Vec indices are 0-based as in the source; a Vec v is a TLA+ sequence,   *)
(* so v[i] of the source is v[i + 1] here.                                 *)
(***************************************************************************)
EXTENDS Integers, Sequences, FiniteSets, TLC

VARIABLES
    data,       \* the CanvasState handed to Canvas::event / Canvas::update
    old_data,   \* Option: the toolbar of the data the last update pass saw
    cursor,     \* the window's cursor
    panicked,   \* "none", or the function whose unwrap() panicked
    last,       \* what the last handler did (calls it made, in order)
    sel_in,     \* input of the active_path_idx check
    quit,       \* crash_quit_app process
    panel,      \* crash_show_open_panel process
    bez         \* bez_editor main

vars == <<data, old_data, cursor, panicked, last, sel_in, quit, panel, bez>>

MaxPoints == 3
MaxCoord == 2
MaxSel == 2
MaxClicks == 3
MaxWin == 2

Coords == 1..MaxCoord

None == <<>>

Some(x) == <<x>>

------------------------------------------------------------------------------
(* path.rs: Path and PointId.  A path is the sequence of its points; a     *)
(* point carries its id and its position.                                  *)

Path_new(start) == << [id |-> 1, point |-> start] >>

last_point_id(path) == path[Len(path)].id

append_point(path, point) ==
    LET id == Len(path) + 1
    IN  [path |-> Append(path, [id |-> id, point |-> point]), id |-> id]

\* The paths Path::update_for_drag(end) can leave behind: one point of the
\* path is moved to end.
Path_update_for_drag(path, end) ==
    { [path EXCEPT ![k].point = end] : k \in 1..Len(path) }

------------------------------------------------------------------------------
(* main.rs: SelectionId, Contents, CanvasState                             *)

SelectionId_new(path_idx, point_id) ==
    [path_idx |-> path_idx, point_id |-> point_id]

Contents_default == [next_path_id |-> 0, paths |-> <<>>, selection |-> <<>>]

\* Vec::get
get(v, idx) == IF idx < Len(v) THEN Some(v[idx + 1]) ELSE None

active_path_idx_ge1(c) ==
    IF Len(c.selection) >= 1 THEN Some(c.selection[1].path_idx) ELSE None

active_path_idx(c) ==
    IF Len(c.selection) = 1 THEN Some(c.selection[1].path_idx) ELSE None

active_path(c) ==
    IF active_path_idx(c) # None
    THEN get(c.paths, active_path_idx(c)[1])
    ELSE None

new_path(c, start) ==
    LET path == Path_new(start)
        path_id == Len(c.paths)
        point_id == last_point_id(path)
    IN  [c EXCEPT !.paths = Append(@, path),
                  !.selection = << SelectionId_new(path_id, point_id) >>]

\* Result of a Contents method that may panic: the function whose unwrap()
\* failed ("none" when it returned), and the contents it left.
Ret(c) == [panic |-> "none", c |-> c]

Panic(f, c) == [panic |-> f, c |-> c]

add_point_keeps_point_id(c, point) ==
    IF active_path_idx(c) = None
    THEN Ret(new_path(c, point))
    ELSE IF active_path(c) = None
    THEN Panic("add_point", c)
    ELSE LET idx == active_path_idx(c)[1]
             r == append_point(c.paths[idx + 1], point)
         IN  Ret([c EXCEPT !.paths[idx + 1] = r.path])

add_point(c, point) ==
    IF active_path_idx(c) = None
    THEN Ret(new_path(c, point))
    ELSE IF active_path(c) = None
    THEN Panic("add_point", c)
    ELSE LET idx == active_path_idx(c)[1]
             r == append_point(c.paths[idx + 1], point)
         IN  Ret([c EXCEPT !.paths[idx + 1] = r.path,
                           !.selection[1].point_id = r.id])

update_for_drag_first_path(c, start, end) ==
    IF active_path(c) = None
    THEN { Panic("update_for_drag", c) }
    ELSE { Ret([c EXCEPT !.paths[1] = p]) :
              p \in Path_update_for_drag(c.paths[1], end) }

\* The set of results: Path::update_for_drag picks the point it moves.
update_for_drag(c, start, end) ==
    IF active_path(c) = None
    THEN { Panic("update_for_drag", c) }
    ELSE LET idx == active_path_idx(c)[1]
         IN  { Ret([c EXCEPT !.paths[idx + 1] = p]) :
                  p \in Path_update_for_drag(c.paths[idx + 1], end) }

\* Vec::pop: on an empty Vec it does nothing
pop(v) == IF Len(v) = 0 THEN v ELSE SubSeq(v, 1, Len(v) - 1)

remove_top_path_keeps_selection(d) ==
    [d EXCEPT !.contents.paths = pop(@)]

remove_top_path(d) ==
    [d EXCEPT !.contents.paths = pop(@),
              !.contents.selection = <<>>]

RECURSIVE TotalPoints(_)
TotalPoints(paths) ==
    IF paths = << >> THEN 0
    ELSE Len(paths[1]) + TotalPoints(Tail(paths))

\* The canvas holds at most MaxPoints points.
WithinBounds(c) == TotalPoints(c.paths) <= MaxPoints

------------------------------------------------------------------------------
(* toolbar.rs: ToolbarState (items with a name and a hotkey, and the index *)
(* of the selected item) and the Toolbar widget                            *)

ToolbarState_basic ==
    [items |-> << [name |-> "select", hotkey |-> "v"],
                  [name |-> "pen", hotkey |-> "p"] >>,
     selected |-> 0]

idx_for_key(tb, key) ==
    IF \E i \in 1..Len(tb.items) : tb.items[i].hotkey = key
    THEN Some((CHOOSE i \in 1..Len(tb.items) : tb.items[i].hotkey = key) - 1)
    ELSE None

set_selected(tb, idx) == [tb EXCEPT !.selected = idx]

selected_idx(tb) == tb.selected

selected_item(tb) == tb.items[tb.selected + 1]

\* Events: KeyUp carries a key, the mouse events a position.
Keys == {"Escape", "v", "p", "x"}

KeyUp(k) == [type |-> "KeyUp", key |-> k, pos |-> 0]

MouseEvent(t, p) == [type |-> t, key |-> "", pos |-> p]

Events ==
    { KeyUp(k) : k \in Keys } \cup
    { MouseEvent(t, p) : t \in {"MouseDown", "MouseMoved", "MouseUp"},
                         p \in Coords }

NoEvent == [type |-> "", key |-> "", pos |-> 0]

\* What the Toolbar widget may do with an event forwarded to it: nothing, or
\* (on a mouse press that hits an item) select the item and mark the event
\* handled.
Toolbar_event(tb, ev) ==
    { [toolbar |-> tb, handled |-> FALSE] } \cup
    IF ev.type = "MouseDown"
    THEN { [toolbar |-> set_selected(tb, i - 1), handled |-> TRUE] :
              i \in 1..Len(tb.items) }
    ELSE {}

------------------------------------------------------------------------------
(* pen.rs: the Pen tool.  It tracks the mouse (Up, Down, Drag) and edits   *)
(* the contents through add_point and update_for_drag.  The start of a     *)
(* drag is not kept: Contents::update_for_drag ignores its _start.         *)

Pen_new == [mouse |-> "Up"]

Pen_event(tool, c, ev) ==
    IF ev.type = "MouseDown"
    THEN LET r == add_point(c, ev.pos)
         IN  { [tool |-> [mouse |-> "Down"],
                contents |-> r.c, ret |-> TRUE, panic |-> r.panic] }
    ELSE IF ev.type = "MouseMoved" /\ tool.mouse # "Up"
    THEN { [tool |-> [mouse |-> "Drag"],
            contents |-> r.c, ret |-> TRUE, panic |-> r.panic] :
              r \in update_for_drag(c, ev.pos, ev.pos) }
    ELSE IF ev.type = "MouseUp" /\ tool.mouse # "Up"
    THEN { [tool |-> Pen_new, contents |-> c, ret |-> TRUE, panic |-> "none"] }
    ELSE { [tool |-> tool, contents |-> c, ret |-> FALSE, panic |-> "none"] }

CanvasState_new ==
    [tool |-> Pen_new, contents |-> Contents_default,
     toolbar |-> ToolbarState_basic]

------------------------------------------------------------------------------
(* main.rs: impl Widget<CanvasState> for Canvas                            *)

\* "first check for top-level commands": the data after the match and
\* whether ctx.set_handled() was called.
event_top_level(d, ev) ==
    IF ev.type = "KeyUp" /\ ev.key = "Escape"
    THEN { [data |-> remove_top_path(d), handled |-> TRUE] }
    ELSE IF ev.type = "KeyUp" /\ idx_for_key(d.toolbar, ev.key) # None
    THEN LET idx == idx_for_key(d.toolbar, ev.key)[1]
         IN  { [data |-> [d EXCEPT !.toolbar = set_selected(@, idx)],
                handled |-> TRUE] }
    ELSE { [data |-> [d EXCEPT !.toolbar = o.toolbar],
            handled |-> o.handled] :
              o \in Toolbar_event(d.toolbar, ev) }

\* `if ctx.is_handled() || tool.event(contents, event)`: the tool is skipped
\* when the event is already handled.
event_pass_to_tool_short_circuit(d, handled, ev) ==
    IF handled
    THEN { [data |-> d, calls |-> 0, seen |-> None,
            invalidated |-> TRUE, panic |-> "none"] }
    ELSE { [data |-> [d EXCEPT !.tool = o.tool, !.contents = o.contents],
            calls |-> 1, seen |-> Some(d),
            invalidated |-> o.ret, panic |-> o.panic] :
              o \in Pen_event(d.tool, d.contents, ev) }

\* "then pass the event to the active tool":
\* `if ctx.is_handled() | tool.event(contents, event) { ctx.invalidate() }`;
\* `|` on bool evaluates both operands.  calls counts the calls of
\* tool.event, seen is the data the tool was called with.
event_pass_to_tool(d, handled, ev) ==
    { [data |-> [d EXCEPT !.tool = o.tool, !.contents = o.contents],
       calls |-> 1, seen |-> Some(d),
       invalidated |-> (handled \/ o.ret), panic |-> o.panic] :
         o \in Pen_event(d.tool, d.contents, ev) }

event(d, ev) ==
    UNION { event_pass_to_tool(t.data, t.handled, ev) :
              t \in event_top_level(d, ev) }

update_always_sets_cursor(old, new) ==
    IF old = None
    THEN [set_cursor |-> None, invalidated |-> FALSE]
    ELSE [set_cursor |->
              IF selected_item(new.toolbar).name = "select"
              THEN Some("Arrow")
              ELSE IF selected_item(new.toolbar).name = "pen"
              THEN Some("Crosshair")
              ELSE None,
          invalidated |-> TRUE]

\* old is the Option of the previous data's toolbar; the result is the
\* cursor handed to set_cursor (None when it is not called) and whether
\* ctx.invalidate() was called.
update(old, new) ==
    IF old = None
    THEN [set_cursor |-> None, invalidated |-> FALSE]
    ELSE IF selected_idx(old[1]) # selected_idx(new.toolbar)
    THEN [set_cursor |->
              IF selected_item(new.toolbar).name = "select"
              THEN Some("Arrow")
              ELSE IF selected_item(new.toolbar).name = "pen"
              THEN Some("Crosshair")
              ELSE None,
          invalidated |-> TRUE]
    ELSE [set_cursor |-> None, invalidated |-> FALSE]

------------------------------------------------------------------------------
(* The two druid examples and the editor's main                            *)

\* AppLauncher::launch / WindowBuilder::build either fail with a
\* PlatformError at start-up or run the application.
LaunchResults == {"Ok", "Err"}

\* crash_quit_app.rs main: `.launch(0_u32).expect("launch failed")`, main
\* returns ().
quit_main_returns_result(result) ==
    IF result = "Ok" THEN "returned Ok" ELSE "returned Err"

quit_main(result) ==
    IF result = "Ok" THEN "returned ()" ELSE "panicked"

\* crash_show_open_panel.rs main: the value of `.launch(())` is main's
\* Result<(), PlatformError>.
panel_main(result) ==
    IF result = "Ok" THEN "returned Ok" ELSE "returned Err"

\* bez_editor main: `builder.build().unwrap()`, main returns ().
bez_main(result) ==
    IF result = "Ok" THEN "returned ()" ELSE "panicked"

Command_new(selector, arg) == [selector |-> selector, arg |-> arg]

quit_on_click_changes_data(app) ==
    [app EXCEPT !.data = @ + 1,
                !.cmds = Append(@, Command_new("QUIT_APP", app.win))]

\* The Quit button's closure: dbg!(&data), then one QUIT_APP command with
\* evt_ctx.window_id() is submitted.
quit_on_click(app) ==
    [app EXCEPT !.cmds = Append(@, Command_new("QUIT_APP", app.win))]

\* The "choose directory" button's closure
panel_on_click(app) ==
    [app EXCEPT !.cmds = Append(@, Command_new("SHOW_OPEN_PANEL", "JPG"))]

\* launch: "none" before main has launched, then the launch result;
\* exit: "none" while main has not ended, then how it ended.
AppStart == [launch |-> "none", exit |-> "none", data |-> 0, win |-> 0,
             cmds |-> <<>>, clicks |-> 0]

------------------------------------------------------------------------------
(* State and actions                                                       *)

NoLast ==
    [op |-> "none", ev |-> NoEvent, pos |-> 0, calls |-> 0, seen |-> None,
     ret |-> None, set_cursor |-> None, invalidated |-> FALSE]

Init ==
    /\ data = CanvasState_new
    /\ old_data = None
    /\ cursor = "Default"
    /\ panicked = "none"
    /\ last = NoLast
    /\ sel_in = Contents_default
    /\ quit = AppStart
    /\ panel = AppStart
    /\ bez = AppStart

editorVars == <<data, old_data, cursor, panicked, last>>

demoVars == <<quit, panel, bez>>

Call_new_path ==
    /\ panicked = "none"
    /\ \E p \in Coords :
          /\ WithinBounds(new_path(data.contents, p))
          /\ data' = [data EXCEPT !.contents = new_path(@, p)]
          /\ last' = [NoLast EXCEPT !.op = "new_path", !.pos = p]
    /\ UNCHANGED <<old_data, cursor, panicked, sel_in, demoVars>>

Call_add_point ==
    /\ panicked = "none"
    /\ \E p \in Coords :
          LET r == add_point(data.contents, p)
          IN  /\ WithinBounds(r.c)
              /\ data' = [data EXCEPT !.contents = r.c]
              /\ panicked' = r.panic
              /\ last' = [NoLast EXCEPT !.op = "add_point", !.pos = p]
    /\ UNCHANGED <<old_data, cursor, sel_in, demoVars>>

Call_update_for_drag ==
    /\ panicked = "none"
    /\ \E start \in Coords, end \in Coords :
          \E r \in update_for_drag(data.contents, start, end) :
              /\ data' = [data EXCEPT !.contents = r.c]
              /\ panicked' = r.panic
              /\ last' = [NoLast EXCEPT !.op = "update_for_drag", !.pos = end]
    /\ UNCHANGED <<old_data, cursor, sel_in, demoVars>>

Call_remove_top_path ==
    /\ panicked = "none"
    /\ data' = remove_top_path(data)
    /\ last' = [NoLast EXCEPT !.op = "remove_top_path"]
    /\ UNCHANGED <<old_data, cursor, panicked, sel_in, demoVars>>

Canvas_event ==
    /\ panicked = "none"
    /\ \E ev \in Events :
          \E r \in event(data, ev) :
              /\ WithinBounds(r.data.contents)
              /\ data' = r.data
              /\ panicked' = r.panic
              /\ last' = [NoLast EXCEPT !.op = "event", !.ev = ev,
                                        !.calls = r.calls, !.seen = r.seen,
                                        !.invalidated = r.invalidated]
    /\ UNCHANGED <<old_data, cursor, sel_in, demoVars>>

\* The update pass: Canvas::update gets the previous data (None on the first
\* pass) and the current data.
Canvas_update ==
    /\ panicked = "none"
    /\ LET r == update(old_data, data)
       IN  /\ cursor' = IF r.set_cursor # None THEN r.set_cursor[1] ELSE cursor
           /\ last' = [NoLast EXCEPT !.op = "update",
                                     !.set_cursor = r.set_cursor,
                                     !.invalidated = r.invalidated]
    /\ old_data' = Some(data.toolbar)
    /\ UNCHANGED <<data, panicked, sel_in, demoVars>>

\* The canvas widget, driven by the toolkit's events and update passes
Next ==
    \/ Canvas_event
    \/ Canvas_update

Spec == Init /\ [][Next]_vars

\* The Contents / CanvasState methods, called in any order
NextContents ==
    \/ Call_new_path
    \/ Call_add_point
    \/ Call_update_for_drag
    \/ Call_remove_top_path

SpecContents == Init /\ [][NextContents]_vars

------------------------------------------------------------------------------
(* active_path_idx on arbitrary selections                                 *)

PathIdxs == 0..MaxPoints

PointIds == 1..MaxPoints

SelectionIds ==
    { SelectionId_new(i, p) : i \in PathIdxs, p \in PointIds }

Selections ==
    UNION { [1..n -> SelectionIds] : n \in 0..MaxSel }

InitPure ==
    /\ sel_in \in { [next_path_id |-> 0,
                     paths |-> [i \in 1..n |-> Path_new(1)],
                     selection |-> s] :
                       n \in 0..MaxPoints, s \in Selections }
    /\ data = CanvasState_new
    /\ old_data = None
    /\ cursor = "Default"
    /\ panicked = "none"
    /\ last = NoLast
    /\ quit = AppStart
    /\ panel = AppStart
    /\ bez = AppStart

Call_active_path_idx ==
    /\ last.op = "none"
    /\ last' = [NoLast EXCEPT !.op = "active_path_idx",
                              !.ret = active_path_idx(sel_in)]
    /\ UNCHANGED <<data, old_data, cursor, panicked, sel_in, demoVars>>

Call_active_path ==
    /\ last.op = "none"
    /\ last' = [NoLast EXCEPT !.op = "active_path",
                              !.ret = active_path(sel_in)]
    /\ UNCHANGED <<data, old_data, cursor, panicked, sel_in, demoVars>>

NextPure == Call_active_path_idx \/ Call_active_path

SpecPure == InitPure /\ [][NextPure]_vars

------------------------------------------------------------------------------
(* The example applications' processes                                     *)

quit_launch ==
    /\ quit.launch = "none"
    /\ \E result \in LaunchResults, w \in 1..MaxWin :
          quit' = IF result = "Ok"
                  THEN [quit EXCEPT !.launch = "Ok", !.win = w]
                  ELSE [quit EXCEPT !.launch = "Err",
                                    !.exit = quit_main("Err")]
    /\ UNCHANGED <<editorVars, sel_in, panel, bez>>

quit_click ==
    /\ quit.launch = "Ok" /\ quit.exit = "none"
    /\ quit.clicks < MaxClicks
    /\ quit' = [quit_on_click(quit) EXCEPT !.clicks = @ + 1]
    /\ UNCHANGED <<editorVars, sel_in, panel, bez>>

\* The application ends and launch returns Ok(())
quit_end ==
    /\ quit.launch = "Ok" /\ quit.exit = "none"
    /\ quit' = [quit EXCEPT !.exit = quit_main("Ok")]
    /\ UNCHANGED <<editorVars, sel_in, panel, bez>>

panel_launch ==
    /\ panel.launch = "none"
    /\ \E result \in LaunchResults :
          panel' = IF result = "Ok"
                   THEN [panel EXCEPT !.launch = "Ok", !.win = 1]
                   ELSE [panel EXCEPT !.launch = "Err",
                                      !.exit = panel_main("Err")]
    /\ UNCHANGED <<editorVars, sel_in, quit, bez>>

panel_click ==
    /\ panel.launch = "Ok" /\ panel.exit = "none"
    /\ panel.clicks < MaxClicks
    /\ panel' = [panel_on_click(panel) EXCEPT !.clicks = @ + 1]
    /\ UNCHANGED <<editorVars, sel_in, quit, bez>>

panel_end ==
    /\ panel.launch = "Ok" /\ panel.exit = "none"
    /\ panel' = [panel EXCEPT !.exit = panel_main("Ok")]
    /\ UNCHANGED <<editorVars, sel_in, quit, bez>>

bez_build ==
    /\ bez.launch = "none"
    /\ \E result \in LaunchResults :
          bez' = IF result = "Ok"
                 THEN [bez EXCEPT !.launch = "Ok", !.win = 1]
                 ELSE [bez EXCEPT !.launch = "Err", !.exit = bez_main("Err")]
    /\ UNCHANGED <<editorVars, sel_in, quit, panel>>

\* run_loop.run() returns
bez_end ==
    /\ bez.launch = "Ok" /\ bez.exit = "none"
    /\ bez' = [bez EXCEPT !.exit = bez_main("Ok")]
    /\ UNCHANGED <<editorVars, sel_in, quit, panel>>

NextDemo ==
    \/ quit_launch
    \/ quit_click
    \/ quit_end
    \/ panel_launch
    \/ panel_click
    \/ panel_end
    \/ bez_build
    \/ bez_end

SpecDemo == Init /\ [][NextDemo]_vars

------------------------------------------------------------------------------
(* Properties                                                              *)

\* C1: active_path_idx returns Some(i) exactly when the selection holds
\* exactly one entry, and then i is that entry's path_idx; for an empty
\* selection and for two or more entries it returns None.
C1_active_path_idx ==
    last.op = "active_path_idx" =>
        LET sel == sel_in.selection
        IN  /\ (last.ret # None) <=> (Len(sel) = 1)
            /\ Len(sel) = 1 => last.ret = << sel[1].path_idx >>
            /\ Len(sel) # 1 => last.ret = << >>

C1_witness ==
    /\ last.op = "active_path_idx"
    /\ Len(sel_in.selection) >= 2
    /\ last.ret = << >>

\* C2: add_point(p) starts a new path at p when there is no active path (one
\* more path) and appends p to the active path otherwise (same number of
\* paths); afterwards the selection is exactly one entry, its path_idx is the
\* path that received p and its point_id is the id of the point just added.
C2_add_point ==
    [][ last'.op = "add_point" =>
          LET c == data.contents
              c2 == data'.contents
              p == last'.pos
              fresh == active_path(c) = << >>
              recv == IF fresh THEN Len(c.paths) ELSE c.selection[1].path_idx
          IN  /\ panicked' = "none"
              /\ Len(c2.paths) = IF fresh THEN Len(c.paths) + 1 ELSE Len(c.paths)
              /\ \A i \in 1..Len(c.paths) : i # recv + 1 => c2.paths[i] = c.paths[i]
              /\ Len(c2.paths[recv + 1]) =
                     IF fresh THEN 1 ELSE Len(c.paths[recv + 1]) + 1
              /\ ~fresh => \A k \in 1..Len(c.paths[recv + 1]) :
                              c2.paths[recv + 1][k] = c.paths[recv + 1][k]
              /\ Len(c2.selection) = 1
              /\ c2.selection[1].path_idx = recv
              /\ LET path == c2.paths[recv + 1]
                 IN  /\ path[Len(path)].point = p
                     /\ path[Len(path)].id = c2.selection[1].point_id
                     /\ \A k \in 1..(Len(path) - 1) :
                            path[k].id # c2.selection[1].point_id
      ]_vars

C2_witness ==
    /\ last.op = "add_point"
    /\ Len(data.contents.paths) >= 2
    /\ Len(data.contents.selection) = 1
    /\ data.contents.selection[1].point_id >= 2

\* C3: update_for_drag, called when there is an active path, changes that
\* path only: the number of paths, every other path, and the selection's
\* length and path_idx stay as they were.
C3_update_for_drag_frame ==
    [][ (last'.op = "update_for_drag" /\ active_path(data.contents) # << >>) =>
          LET c == data.contents
              c2 == data'.contents
              idx == c.selection[1].path_idx
          IN  /\ panicked' = "none"
              /\ Len(c2.paths) = Len(c.paths)
              /\ \A i \in 1..Len(c.paths) : i # idx + 1 => c2.paths[i] = c.paths[i]
              /\ Len(c2.paths[idx + 1]) = Len(c.paths[idx + 1])
              /\ Len(c2.selection) = Len(c.selection)
              /\ c2.selection[1].path_idx = idx
      ]_vars

C3_witness ==
    /\ last.op = "update_for_drag"
    /\ panicked = "none"
    /\ Len(data.contents.paths) >= 2
    /\ Len(data.contents.selection) = 1
    /\ data.contents.selection[1].path_idx = 1
    /\ \E k \in 1..Len(data.contents.paths[2]) :
           data.contents.paths[2][k].point = last.pos

Apps == {quit, panel, bez}

\* C4 as claimed: in every example application a launch failure is surfaced
\* through main's PlatformError result, never through a panic.
C4_every_main_returns_the_error ==
    \A app \in Apps : app.launch = "Err" => app.exit = "returned Err"

\* C4: a launch failure is surfaced through main's PlatformError result in
\* the open-panel example only; in the quit example (expect) and in the
\* bezier editor (unwrap) it ends the program with a panic.
C4_launch_failure ==
    /\ panel.launch = "Err" => panel.exit = "returned Err"
    /\ quit.launch = "Err" => quit.exit = "panicked"
    /\ bez.launch = "Err" => bez.exit = "panicked"
    /\ \A app \in Apps : app.launch # "Err" => app.exit \notin {"returned Err", "panicked"}

C4_witness ==
    /\ panel.launch = "Err"
    /\ quit.launch = "Err"
    /\ bez.launch = "Err"

\* C5: every click of the Quit button submits exactly one QUIT_APP command
\* carrying the id of the button's window and leaves the application data
\* (0) as it was, however many clicks came before.
C5_quit_click ==
    [][ quit'.clicks # quit.clicks =>
          /\ quit'.cmds = Append(quit.cmds,
                                 [selector |-> "QUIT_APP", arg |-> quit.win])
          /\ quit'.data = quit.data
          /\ quit'.data = 0
          /\ quit'.win = quit.win
      ]_vars

C5_witness ==
    /\ quit.clicks >= 2
    /\ Len(quit.cmds) = quit.clicks
    /\ quit.win = 2

\* C6: for every event delivered to the canvas, an Escape or toolbar-shortcut
\* KeyUp included, the active tool's event handler is called exactly once,
\* and the data it is called with already carries the top-level step's
\* effect (remove_top_path, set_selected, or the toolbar's own handling).
C6_event_then_tool ==
    [][ last'.op = "event" =>
          /\ last'.calls = 1
          /\ Len(last'.seen) = 1
          /\ LET ev == last'.ev
                 s == last'.seen[1]
             IN  IF ev.type = "KeyUp" /\ ev.key = "Escape"
                 THEN /\ s.contents.paths = pop(data.contents.paths)
                      /\ s.contents.selection = << >>
                      /\ s.toolbar = data.toolbar
                      /\ s.tool = data.tool
                 ELSE IF ev.type = "KeyUp" /\ ev.key \in {"v", "p"}
                 THEN /\ s.toolbar.selected = (IF ev.key = "v" THEN 0 ELSE 1)
                      /\ s.toolbar.items = data.toolbar.items
                      /\ s.contents = data.contents
                      /\ s.tool = data.tool
                 ELSE /\ s.contents = data.contents
                      /\ s.tool = data.tool
                      /\ \E o \in Toolbar_event(data.toolbar, ev) :
                             s.toolbar = o.toolbar
      ]_vars

C6_witness ==
    /\ last.op = "event"
    /\ last.ev = KeyUp("Escape")
    /\ last.calls = 1
    /\ last.invalidated
    /\ data.tool.mouse = "Down"
    /\ last.seen[1].contents.paths = << >>
    /\ data.contents.selection = << >>

\* C7: when previous data exists and the toolbar's selected index differs
\* between old and new data, the cursor is set (Arrow for 'select',
\* Crosshair for 'pen') and a repaint is requested; when the index is the
\* same, or there is no previous data, the cursor is not set.
C7_update_cursor ==
    [][ last'.op = "update" =>
          LET changed == /\ old_data # << >>
                         /\ old_data[1].selected # data.toolbar.selected
              name == data.toolbar.items[data.toolbar.selected + 1].name
          IN  /\ changed /\ name = "select" =>
                     /\ last'.set_cursor = << "Arrow" >>
                     /\ cursor' = "Arrow"
              /\ changed /\ name = "pen" =>
                     /\ last'.set_cursor = << "Crosshair" >>
                     /\ cursor' = "Crosshair"
              /\ changed => last'.set_cursor # << >> /\ last'.invalidated
              /\ ~changed => last'.set_cursor = << >> /\ cursor' = cursor
      ]_vars

C7_witness ==
    /\ last.op = "update"
    /\ last.set_cursor = << "Crosshair" >>
    /\ last.invalidated
    /\ cursor = "Crosshair"

\* C8: every selection entry's path_idx is below the number of paths, the
\* selection has at most one entry, an active path index always names an
\* existing path, and so the unwrap in add_point never fails and the one in
\* update_for_drag fails only when there is no active path.
C8_selection_valid ==
    LET c == data.contents
    IN  /\ \A i \in 1..Len(c.selection) : c.selection[i].path_idx < Len(c.paths)
        /\ Len(c.selection) <= 1
        /\ active_path_idx(c) # << >> => active_path(c) # << >>
        /\ panicked # "add_point"
        /\ panicked = "update_for_drag" => Len(c.selection) # 1

C8_witness ==
    /\ last.op = "remove_top_path"
    /\ Len(data.contents.paths) >= 1
    /\ data.contents.selection = << >>
    /\ panicked = "none"

====
